---- MODULE Spec2Model ----
(***************************************************************************)
(* Model of retirement.py: compute_projection, the retirement cash-flow    *)
(* projection engine.  One call of the function is a run of the state      *)
(* machine: Init draws the keyword arguments, Projection builds the        *)
(* DataFrame (lines 35-72), Savings runs the savings branch (lines 74-92)  *)
(* and Return hands back the tuple (lines 94-104).                         *)
(*                                                                         *)
(* Python floats are modelled as exact rationals <<numerator, denominator>>*)
(* in lowest terms with a positive denominator; rounding, overflow to inf  *)
(* and underflow of IEEE doubles are outside the model.  Rates are drawn   *)
(* from values with 1 + rate > 0, so no power of (1 + rate) is zero.       *)
(***************************************************************************)
EXTENDS Integers, Sequences, FiniteSets, TLC

(* ------------------------------------------------------------------ *)
(* Bounds of the input space                                           *)
(* ------------------------------------------------------------------ *)
MaxRetirementYears == 3
MaxHorizon == 2

(* Defaults of the keyword arguments that the model keeps fixed. *)
CurrentYear == 2025
CurrentAge == 51

(* ------------------------------------------------------------------ *)
(* Float arithmetic as exact rationals                                 *)
(* ------------------------------------------------------------------ *)
Abs(x) == IF x < 0 THEN -x ELSE x

RECURSIVE GCD(_, _)
GCD(a, b) == IF b = 0 THEN a ELSE GCD(b, a % b)

Rat(n, d) ==
    LET g == GCD(Abs(n), Abs(d))
        s == IF d < 0 THEN -1 ELSE 1
    IN  <<(s * n) \div g, (s * d) \div g>>

Zero == <<0, 1>>
One == <<1, 1>>
Float(i) == <<i, 1>>

Add(x, y) ==
    LET g == GCD(x[2], y[2])
    IN  Rat(x[1] * (y[2] \div g) + y[1] * (x[2] \div g), x[2] * (y[2] \div g))
Neg(x) == <<-x[1], x[2]>>
Sub(x, y) == Add(x, Neg(y))
Mul(x, y) ==
    LET g1 == GCD(Abs(x[1]), y[2])
        g2 == GCD(Abs(y[1]), x[2])
    IN  Rat((x[1] \div g1) * (y[1] \div g2), (x[2] \div g2) * (y[2] \div g1))
Div(x, y) == Mul(x, Rat(y[2], y[1]))
Less(x, y) ==
    LET g == GCD(x[2], y[2])
    IN  x[1] * (y[2] \div g) < y[1] * (x[2] \div g)
Max(x, y) == IF Less(x, y) THEN y ELSE x

RECURSIVE Pow(_, _)
Pow(b, k) ==
    IF k = 0 THEN One
    ELSE IF k > 0 THEN Mul(b, Pow(b, k - 1))
    ELSE Div(One, Pow(b, -k))

(* The exception a division of two Python floats raises on a zero divisor. *)
ZeroDivisionError == <<0, 0>>
PyDiv(x, y) == IF y = Zero THEN ZeroDivisionError ELSE Div(x, y)

(* ------------------------------------------------------------------ *)
(* Arguments of one call                                               *)
(* ------------------------------------------------------------------ *)
Half == <<1, 2>>

RetirementYearsValues == -1 .. MaxRetirementYears
RetirementStartYears == (CurrentYear - 1) .. (CurrentYear + MaxHorizon)
Savings0 == {Zero, Float(40), Float(4000)}
IncomeNeeds == {Zero, Float(100)}
InflationRates == {Zero, Half}
ColaRates == {Zero, One}
ReturnRates == {Zero, One}
(* start ages below, inside and above the projected age range *)
StartAges == {CurrentAge - 2, CurrentAge + 1,
              CurrentAge + MaxHorizon + MaxRetirementYears}

Arguments ==
    [current_year : {CurrentYear},
     current_age : {CurrentAge},
     current_savings : Savings0,
     retirement_start_year : RetirementStartYears,
     retirement_years : RetirementYearsValues,
     base_income_need : IncomeNeeds,
     inflation : InflationRates,
     cola : ColaRates,
     investment_return : ReturnRates,
     p1_start_value : {Zero, Float(60)},
     p1_start_age : StartAges,
     p2_start_value : {Float(50)},
     p2_start_age : StartAges,
     ss_start_value : {Float(20)},
     ss_start_age : StartAges]

(* ------------------------------------------------------------------ *)
(* compute_projection, expression by expression                        *)
(* ------------------------------------------------------------------ *)

(* line 35 without the "- 1": the end year taken one past the last year *)
RetirementEndYear_NoMinusOne(a) == a.retirement_start_year + a.retirement_years

(* line 35 *)
RetirementEndYear(a) == a.retirement_start_year + a.retirement_years - 1

(* line 36: list(range(start, end + 1)); an empty list when end < start *)
RetirementYearsRange(a) ==
    LET n == RetirementEndYear(a) + 1 - a.retirement_start_year
    IN  [i \in 1 .. (IF n > 0 THEN n ELSE 0) |-> a.retirement_start_year + i - 1]

(* line 37: list(range(len(retirement_years_range))) *)
RetIndex(a) == [i \in 1 .. Len(RetirementYearsRange(a)) |-> i - 1]

(* line 38 *)
YearsToRetirement(a) == a.retirement_start_year - a.current_year

(* line 45 *)
AgeOf(a, year) == a.current_age + (year - a.current_year)

(* line 48 with inflation stopped at the retirement start *)
TargetIncome_FrozenAtRetirement(a, idx) ==
    Mul(a.base_income_need, Pow(Add(One, a.inflation), YearsToRetirement(a)))

(* line 48 *)
TargetIncome(a, idx) ==
    Mul(a.base_income_need, Pow(Add(One, a.inflation), YearsToRetirement(a) + idx))

(* lines 51-53 with the mask Age > p1_start_age *)
Pension1_StrictStart(a, age) ==
    IF age > a.p1_start_age
    THEN Mul(a.p1_start_value, Pow(Add(One, a.cola), age - a.p1_start_age))
    ELSE Zero

(* lines 51-53 *)
Pension1(a, age) ==
    IF age >= a.p1_start_age
    THEN Mul(a.p1_start_value, Pow(Add(One, a.cola), age - a.p1_start_age))
    ELSE Zero

(* lines 56-58 *)
Pension2(a, age) ==
    IF age >= a.p2_start_age
    THEN Mul(a.p2_start_value, Pow(Add(One, a.cola), age - a.p2_start_age))
    ELSE Zero

(* lines 61-63 *)
SocialSecurity(a, age) ==
    IF age >= a.ss_start_age
    THEN Mul(a.ss_start_value, Pow(Add(One, a.cola), age - a.ss_start_age))
    ELSE Zero

(* line 66 *)
TotalFixedIncome(p1, p2, ss) == Add(Add(p1, p2), ss)

(* line 67 without .clip(lower=0) *)
ShortfallOf_NoClip(target, fixed) == Sub(target, fixed)

(* line 67: (Target_Income - Total_Fixed_Income).clip(lower=0) *)
ShortfallOf(target, fixed) ==
    LET d == Sub(target, fixed) IN IF Less(d, Zero) THEN Zero ELSE d

(* line 70 discounting with a 1-based year index *)
PVOfShortfall_OneBased(a, shortfall, idx) ==
    Div(shortfall, Pow(Add(One, a.investment_return), idx + 1))

(* line 70 *)
PVOfShortfall(a, shortfall, idx) ==
    Div(shortfall, Pow(Add(One, a.investment_return), idx))

(* lines 41-70: one row of the DataFrame *)
Row(a, i) ==
    LET year == RetirementYearsRange(a)[i]
        idx == RetIndex(a)[i]
        age == AgeOf(a, year)
        target == TargetIncome(a, idx)
        p1 == Pension1(a, age)
        p2 == Pension2(a, age)
        ss == SocialSecurity(a, age)
        fixed == TotalFixedIncome(p1, p2, ss)
        shortfall == ShortfallOf(target, fixed)
    IN  [Year |-> year, Ret_Year_Index |-> idx, Age |-> age,
         Target_Income |-> target, Pension_1 |-> p1, Pension_2 |-> p2,
         Social_Security |-> ss, Total_Fixed_Income |-> fixed,
         Shortfall |-> shortfall,
         PV_of_Shortfall |-> PVOfShortfall(a, shortfall, idx)]

DataFrame(a) == [i \in 1 .. Len(RetirementYearsRange(a)) |-> Row(a, i)]

(* line 72: df['PV_of_Shortfall'].sum(); 0 for an empty column *)
RECURSIVE SumPV(_, _)
SumPV(rows, n) ==
    IF n = 0 THEN Zero ELSE Add(SumPV(rows, n - 1), rows[n].PV_of_Shortfall)

TotalNeededAtRetirement(rows) == SumPV(rows, Len(rows))

(* line 80 applied on every horizon, without the branch of line 75 *)
FvCurrentSavings_AlwaysGrown(a) ==
    Mul(a.current_savings,
        Pow(Add(One, a.investment_return), YearsToRetirement(a)))

(* lines 76 and 80 *)
FvCurrentSavings(a) ==
    IF YearsToRetirement(a) <= 0
    THEN a.current_savings
    ELSE Mul(a.current_savings,
             Pow(Add(One, a.investment_return), YearsToRetirement(a)))

(* lines 77 and 81 without max(0.0, ...) *)
RemainingNeeded_NoFloor(total, fv) == Sub(total, fv)

(* lines 77 and 81 *)
RemainingNeeded(total, fv) == Max(Zero, Sub(total, fv))

(* line 91 *)
AnnuityFactor(r, n) == PyDiv(Sub(Pow(Add(One, r), n), One), r)

(* lines 75-92 without the r == 0 branch of line 88 *)
AnnualSavingsNeeded_NoZeroRate(a, remaining) ==
    IF YearsToRetirement(a) <= 0 THEN Zero
    ELSE IF remaining = Zero THEN Zero
    ELSE LET r == a.investment_return
             n == YearsToRetirement(a)
         IN  IF AnnuityFactor(r, n) = ZeroDivisionError
             THEN ZeroDivisionError
             ELSE Div(remaining, AnnuityFactor(r, n))

(* lines 75-92 with line 89 leaving remaining_needed undivided *)
AnnualSavingsNeeded_Undivided(a, remaining) ==
    IF YearsToRetirement(a) <= 0 THEN Zero
    ELSE IF remaining = Zero THEN Zero
    ELSE LET r == a.investment_return
             n == YearsToRetirement(a)
         IN  IF r = Zero THEN remaining
             ELSE IF AnnuityFactor(r, n) = ZeroDivisionError
                  THEN ZeroDivisionError
                  ELSE Div(remaining, AnnuityFactor(r, n))

(* lines 75-92: the value bound to annual_savings_needed, or the exception *)
AnnualSavingsNeeded(a, remaining) ==
    IF YearsToRetirement(a) <= 0 THEN Zero
    ELSE IF remaining = Zero THEN Zero
    ELSE LET r == a.investment_return
             n == YearsToRetirement(a)
         IN  IF r = Zero THEN Div(remaining, Float(n))
             ELSE IF AnnuityFactor(r, n) = ZeroDivisionError
                  THEN ZeroDivisionError
                  ELSE Div(remaining, AnnuityFactor(r, n))

(* line 94 *)
RetirementAge(a) == a.current_age + YearsToRetirement(a)

(* ------------------------------------------------------------------ *)
(* State machine of one call                                           *)
(* ------------------------------------------------------------------ *)
VARIABLES args, pc, df, total_needed_at_retirement, fv_current_savings,
          remaining_needed, annual_savings_needed, years_to_retirement,
          retirement_age

vars == <<args, pc, df, total_needed_at_retirement, fv_current_savings,
          remaining_needed, annual_savings_needed, years_to_retirement,
          retirement_age>>

Init ==
    /\ args \in Arguments
    /\ pc = "call"
    /\ df = <<>>
    /\ total_needed_at_retirement = Zero
    /\ fv_current_savings = Zero
    /\ remaining_needed = Zero
    /\ annual_savings_needed = Zero
    /\ years_to_retirement = 0
    /\ retirement_age = 0

(* lines 35-72: derived values, the DataFrame, the sum of present values *)
Projection ==
    /\ pc = "call"
    /\ years_to_retirement' = YearsToRetirement(args)
    /\ df' = DataFrame(args)
    /\ total_needed_at_retirement' = TotalNeededAtRetirement(DataFrame(args))
    /\ pc' = "savings"
    /\ UNCHANGED <<args, fv_current_savings, remaining_needed,
                   annual_savings_needed, retirement_age>>

(* lines 74-92: the savings calculation; a ZeroDivisionError leaves the call *)
Savings ==
    /\ pc = "savings"
    /\ fv_current_savings' = FvCurrentSavings(args)
    /\ remaining_needed' =
           RemainingNeeded(total_needed_at_retirement, FvCurrentSavings(args))
    /\ LET annual == AnnualSavingsNeeded(args,
                         RemainingNeeded(total_needed_at_retirement,
                                         FvCurrentSavings(args)))
       IN  IF annual = ZeroDivisionError
           THEN pc' = "raised" /\ UNCHANGED annual_savings_needed
           ELSE pc' = "return" /\ annual_savings_needed' = annual
    /\ UNCHANGED <<args, df, total_needed_at_retirement, years_to_retirement,
                   retirement_age>>

(* lines 94-104 *)
Return ==
    /\ pc = "return"
    /\ retirement_age' = RetirementAge(args)
    /\ pc' = "done"
    /\ UNCHANGED <<args, df, total_needed_at_retirement, fv_current_savings,
                   remaining_needed, annual_savings_needed, years_to_retirement>>

Next == Projection \/ Savings \/ Return

Spec == Init /\ [][Next]_vars

(* ------------------------------------------------------------------ *)
(* Properties of the returned projection                               *)
(* ------------------------------------------------------------------ *)
Returned == pc = "done"
Rows == 1 .. Len(df)
Horizon == args.retirement_start_year - args.current_year
Positive(x) == Less(Zero, x)

RECURSIVE SumColumn(_, _, _)
SumColumn(rows, col, n) ==
    IF n = 0 THEN Zero ELSE Add(SumColumn(rows, col, n - 1), rows[n][col])

(* C1: a call with retirement_years < 1 is rejected: it never returns a   *)
(* result, so every returned projection comes from retirement_years >= 1  *)
(* and has at least one row.                                              *)
C1_RejectsInvalidShape ==
    Returned => (args.retirement_years >= 1 /\ Len(df) >= 1)

(* C2: with retirement_years >= 1 the result has exactly retirement_years *)
(* rows, and row i (0-based) has Year = retirement_start_year + i and     *)
(* RetYearIndex = i, so the years are contiguous and strictly increasing. *)
C2_RowCountAndYears ==
    (Returned /\ args.retirement_years >= 1) =>
        /\ Len(df) = args.retirement_years
        /\ \A i \in Rows :
              /\ df[i].Year = args.retirement_start_year + (i - 1)
              /\ df[i].Ret_Year_Index = i - 1
        /\ \A i \in Rows : i < Len(df) => df[i + 1].Year = df[i].Year + 1

C2_Witness ==
    /\ Returned
    /\ args.retirement_years = MaxRetirementYears
    /\ Len(df) = MaxRetirementYears
    /\ df[Len(df)].Year = args.retirement_start_year + MaxRetirementYears - 1

(* C3: in every row Shortfall = max(0, TargetIncome - TotalFixedIncome)   *)
(* with TotalFixedIncome = Pension1 + Pension2 + SocialSecurity; it is    *)
(* never negative, a row whose fixed income exceeds its target adds 0 to  *)
(* TotalNeededAtRetirement, and the total is never below any single row's *)
(* present value, so a surplus row offsets nothing.                       *)
C3_ShortfallFloor ==
    Returned =>
        /\ \A i \in Rows :
              LET gap == Sub(df[i].Target_Income, df[i].Total_Fixed_Income)
              IN  /\ df[i].Total_Fixed_Income =
                         Add(Add(df[i].Pension_1, df[i].Pension_2),
                             df[i].Social_Security)
                  /\ df[i].Shortfall = (IF Less(Zero, gap) THEN gap ELSE Zero)
                  /\ ~Less(df[i].Shortfall, Zero)
                  /\ Less(df[i].Target_Income, df[i].Total_Fixed_Income) =>
                         (df[i].Shortfall = Zero /\ df[i].PV_of_Shortfall = Zero)
        /\ \A i \in Rows : ~Less(total_needed_at_retirement, df[i].PV_of_Shortfall)

C3_Witness ==
    /\ Returned
    /\ \E i \in Rows, j \in Rows :
          /\ Less(df[i].Target_Income, df[i].Total_Fixed_Income)
          /\ df[i].Shortfall = Zero
          /\ Positive(df[j].Shortfall)
          /\ total_needed_at_retirement = df[j].PV_of_Shortfall

(* C4: for each of Pension1, Pension2 and SocialSecurity, with start age  *)
(* A and a positive start value, the stream is 0 in every row with        *)
(* Age < A, positive in every row with Age >= A, and equal to the start   *)
(* value in the row with Age = A, where Age = current_age + (Year -       *)
(* current_year).                                                         *)
Gated(value, age, startAge, startValue) ==
    Positive(startValue) =>
        /\ age < startAge => value = Zero
        /\ age >= startAge => Positive(value)
        /\ age = startAge => value = startValue

C4_FixedIncomeGating ==
    Returned =>
        \A i \in Rows :
            /\ df[i].Age = args.current_age + (df[i].Year - args.current_year)
            /\ Gated(df[i].Pension_1, df[i].Age,
                     args.p1_start_age, args.p1_start_value)
            /\ Gated(df[i].Pension_2, df[i].Age,
                     args.p2_start_age, args.p2_start_value)
            /\ Gated(df[i].Social_Security, df[i].Age,
                     args.ss_start_age, args.ss_start_value)

C4_Witness ==
    /\ Returned
    /\ Positive(args.p1_start_value)
    /\ Positive(args.cola)
    /\ \E i \in Rows, j \in Rows, k \in Rows :
          /\ df[i].Age < args.p1_start_age /\ df[i].Pension_1 = Zero
          /\ df[j].Age = args.p1_start_age
          /\ df[j].Pension_1 = args.p1_start_value
          /\ df[k].Age > args.p1_start_age
          /\ Less(args.p1_start_value, df[k].Pension_1)
          /\ df[k].Age < args.p2_start_age /\ df[k].Pension_2 = Zero
          /\ df[i].Age >= args.ss_start_age /\ Positive(df[i].Social_Security)

(* C5: when years_to_retirement = retirement_start_year - current_year is *)
(* <= 0, AnnualSavingsNeeded = 0 and FutureValueOfCurrentSavings =        *)
(* current_savings, whatever investment_return and the total needed are.  *)
C5_NonPositiveHorizon ==
    (Returned /\ Horizon <= 0) =>
        /\ years_to_retirement = Horizon
        /\ annual_savings_needed = Zero
        /\ fv_current_savings = args.current_savings

C5_Witness ==
    /\ Returned
    /\ Horizon < 0
    /\ Positive(args.investment_return)
    /\ Positive(args.current_savings)
    /\ Positive(remaining_needed)
    /\ fv_current_savings = args.current_savings

(* C6: with retirement_years >= 1 the numeric edge cases never make the   *)
(* call fail: whether investment_return is 0, years_to_retirement is zero *)
(* or negative, or the start ages lie anywhere around the projected age   *)
(* range, no error (no division by zero) is raised, and the result that   *)
(* is returned is complete: all rows and all scalars.                     *)
C6_EdgeCasesNeverRaise ==
    args.retirement_years >= 1 =>
        /\ pc # "raised"
        /\ Returned =>
              /\ Len(df) = args.retirement_years
              /\ years_to_retirement = Horizon
              /\ retirement_age = args.current_age + Horizon
              /\ annual_savings_needed # ZeroDivisionError

C6_Witness ==
    /\ Returned
    /\ args.retirement_years >= 1
    /\ args.investment_return = Zero
    /\ Horizon > 0
    /\ Positive(remaining_needed)
    /\ Positive(annual_savings_needed)
    /\ \E i \in Rows : df[i].Age < args.p1_start_age
    /\ \E i \in Rows : df[i].Age > args.p2_start_age

(* C7 as claimed: for inflation > 0, TargetIncome is strictly increasing  *)
(* over consecutive rows, with TargetIncome[i] = base_income_need *       *)
(* (1+inflation)^(years_to_retirement + i).                               *)
TargetFormula ==
    \A i \in Rows :
        df[i].Target_Income =
            Mul(args.base_income_need,
                Pow(Add(One, args.inflation), Horizon + (i - 1)))

TargetStrictlyIncreasing ==
    \A i \in Rows :
        i < Len(df) => Less(df[i].Target_Income, df[i + 1].Target_Income)

C7_Claimed ==
    (Returned /\ Positive(args.inflation)) =>
        (TargetFormula /\ TargetStrictlyIncreasing)

(* C7 amended: for inflation > 0 and base_income_need > 0, TargetIncome   *)
(* is strictly increasing over consecutive rows, with TargetIncome[i] =   *)
(* base_income_need * (1+inflation)^(years_to_retirement + i); with       *)
(* base_income_need = 0 every TargetIncome is 0.                          *)
C7_MonotonicTarget ==
    Returned =>
        /\ TargetFormula
        /\ (Positive(args.inflation) /\ Positive(args.base_income_need)) =>
               TargetStrictlyIncreasing
        /\ args.base_income_need = Zero =>
               \A i \in Rows : df[i].Target_Income = Zero

C7_Witness ==
    /\ Returned
    /\ Positive(args.inflation)
    /\ Positive(args.base_income_need)
    /\ Len(df) >= 2
    /\ Less(df[1].Target_Income, df[Len(df)].Target_Income)

(* C8: when investment_return = 0, years_to_retirement = N > 0 and        *)
(* RemainingNeeded = R > 0, AnnualSavingsNeeded = R / N.                  *)
C8_ZeroRateAnnuity ==
    (Returned /\ args.investment_return = Zero /\ Horizon > 0
              /\ Positive(remaining_needed)) =>
        Mul(annual_savings_needed, Float(Horizon)) = remaining_needed

C8_Witness ==
    /\ Returned
    /\ args.investment_return = Zero
    /\ Horizon >= 2
    /\ Positive(remaining_needed)
    /\ Less(annual_savings_needed, remaining_needed)

(* C9: in every row PVOfShortfall[i] = Shortfall[i] / (1+investment_      *)
(* return)^i with i the 0-based RetYearIndex, so row 0 is undiscounted;   *)
(* TotalNeededAtRetirement is the sum of PVOfShortfall over the rows, and *)
(* with investment_return = 0 PVOfShortfall = Shortfall in every row and  *)
(* the total is the plain sum of the shortfalls.                          *)
C9_PresentValue ==
    Returned =>
        /\ \A i \in Rows :
              Mul(df[i].PV_of_Shortfall,
                  Pow(Add(One, args.investment_return), i - 1)) = df[i].Shortfall
        /\ Len(df) >= 1 => df[1].PV_of_Shortfall = df[1].Shortfall
        /\ total_needed_at_retirement = SumColumn(df, "PV_of_Shortfall", Len(df))
        /\ args.investment_return = Zero =>
              /\ \A i \in Rows : df[i].PV_of_Shortfall = df[i].Shortfall
              /\ total_needed_at_retirement = SumColumn(df, "Shortfall", Len(df))

C9_Witness ==
    /\ Returned
    /\ Positive(args.investment_return)
    /\ Len(df) >= 2
    /\ Positive(df[1].Shortfall)
    /\ Positive(df[2].Shortfall)
    /\ Less(df[2].PV_of_Shortfall, df[2].Shortfall)
    /\ Less(df[1].PV_of_Shortfall, total_needed_at_retirement)

(* C10: on both horizon branches RemainingNeeded = max(0,                 *)
(* TotalNeededAtRetirement - FutureValueOfCurrentSavings): never          *)
(* negative, and 0 (with AnnualSavingsNeeded 0) whenever the future value *)
(* of current savings covers or exceeds the total needed.                 *)
C10_RemainingFloor ==
    Returned =>
        LET gap == Sub(total_needed_at_retirement, fv_current_savings)
        IN  /\ remaining_needed = (IF Less(Zero, gap) THEN gap ELSE Zero)
            /\ ~Less(remaining_needed, Zero)
            /\ ~Less(fv_current_savings, total_needed_at_retirement) =>
                   (remaining_needed = Zero /\ annual_savings_needed = Zero)

C10_Witness ==
    /\ Returned
    /\ Horizon > 0
    /\ Positive(total_needed_at_retirement)
    /\ Less(total_needed_at_retirement, fv_current_savings)
    /\ remaining_needed = Zero
    /\ annual_savings_needed = Zero

====
